---------------------------- MODULE Spec2Model ----------------------------
(***************************************************************************)
(* Distributed conjugate gradients (src/LinearSolver/ConjugateGradients.cpp *)
(* and tk::slave of src/Mesh/CommMap.cpp) as a state machine.               *)
(*                                                                         *)
(* One chare (partition) per element of DOMAIN chares. Every entry method  *)
(* of the chare is an operator from the chare's state to its state after   *)
(* the whole handler has run; what the handler sends (boundary-exchange    *)
(* messages, messages to itself, contributions to reductions) is collected *)
(* in the fields out and con and moved to the network by the action that   *)
(* runs the handler.  tk::real is modelled by exact rationals.             *)
(***************************************************************************)
EXTENDS Integers, Sequences, FiniteSets, TLC

VARIABLES
  chares,  \* chare id -> state of the ConjugateGradients object (+ caller view)
  msgs,    \* entry-method invocations in flight (unordered, asynchronous)
  red,     \* chare id -> queue of contributions not yet reduced
  script,  \* the calls (init / solve) the callers have made so far, in order
  input,   \* name of the linear system the chares were constructed from
  maxit,   \* the maxit argument the callers pass to solve()
  tol      \* the tol argument the callers pass to solve()

vars == <<chares, msgs, red, script, input, maxit, tol>>

---------------------------------------------------------------------------
(* Bounds of the model *)

\* largest maxit the callers pass to solve()
MaxIt == 2
\* largest number of init()/solve() calls a caller makes
MaxCalls == 3

---------------------------------------------------------------------------
(* tk::real: exact rationals <<n, d>> with d > 0 in lowest terms;          *)
(* <<0, 0>> stands for the result of a division by zero (inf/nan).         *)

Abs(n) == IF n < 0 THEN -n ELSE n

RECURSIVE Gcd(_, _)
Gcd(a, b) == IF b = 0 THEN a ELSE Gcd(b, a % b)

NaN == <<0, 0>>

Norm(n, d) ==
  IF d = 0 THEN NaN
  ELSE LET g == Gcd(Abs(n), Abs(d))
           s == IF d < 0 THEN -1 ELSE 1
       IN  <<s * (n \div g), s * (d \div g)>>

R(n) == <<n, 1>>
Frac(n, d) == Norm(n, d)
Zero == R(0)
IsNaN(a) == a[2] = 0

RAdd(a, b) == Norm(a[1] * b[2] + b[1] * a[2], a[2] * b[2])
RSub(a, b) == Norm(a[1] * b[2] - b[1] * a[2], a[2] * b[2])
RMul(a, b) == Norm(a[1] * b[1], a[2] * b[2])
RDiv(a, b) == Norm(a[1] * b[2], a[2] * b[1])
RNeg(a)    == <<-a[1], a[2]>>
\* a > b and a < b; any comparison with nan is false
RGt(a, b)  == ~IsNaN(a) /\ ~IsNaN(b) /\ a[1] * b[2] > b[1] * a[2]
RLt(a, b)  == RGt(b, a)

\* std::sqrt(n): kept as the radicand; two roots of non-negative numbers
\* compare as their radicands do
Sqrt(n) == [sq |-> n]

\* sum of f over the finite set S of its arguments
RECURSIVE RSum(_, _)
RSum(f, S) ==
  IF S = {} THEN Zero
  ELSE LET e == CHOOSE e \in S : TRUE IN RAdd(f[e], RSum(f, S \ {e}))

\* a std::vector<tk::real> from a tuple of integers, indexed from 0
Vec(t) == [i \in 0 .. Len(t) - 1 |-> R(t[i + 1])]
\* a std::vector of n zeros
Zeros(n) == [i \in 0 .. n - 1 |-> Zero]
\* size() of a vector indexed from 0
Size(v) == Cardinality(DOMAIN v)


---------------------------------------------------------------------------
(* The inputs the solver is constructed from *)

\* a std::vector<std::size_t> from a tuple, indexed from 0
Idx(t) == [i \in 0 .. Len(t) - 1 |-> t[i + 1]]

\* CSR: the local sparse matrix, held densely; rows is a tuple of rows
CSR(ncomp, rows) ==
  [ rsize |-> Len(rows),
    ncomp |-> ncomp,
    a     |-> [i \in 0 .. Len(rows) - 1 |->
                [j \in 0 .. Len(rows[i + 1]) - 1 |-> rows[i + 1][j + 1]]] ]

\* CSR::mult( x, r ): r = A * x with the locally stored rows only
mult(A, x) ==
  [i \in 0 .. A.rsize - 1 |->
     RSum([j \in 0 .. A.rsize - 1 |-> RMul(R(A.a[i][j]), x[j])],
          0 .. A.rsize - 1)]

\* what one chare's constructor is called with
Arg(A, x, b, gid, lid, ncm) ==
  [A |-> A, x |-> Vec(x), b |-> Vec(b), gid |-> Idx(gid), lid |-> lid, ncm |-> ncm]

\* 1-d Laplacian on 2 nodes, its negative-free variants, used by one chare
Lap2   == CSR(1, << <<2, -1>>, <<-1, 2>> >>)
Zero2  == CSR(1, << <<0, 0>>, <<0, 0>> >>)
Indef2 == CSR(1, << <<1, 0>>, <<0, -1>> >>)
\* local row blocks whose sum over the chares is tridiag(-1,2,-1) on 3 nodes
EndBlk == CSR(1, << <<2, -1>>, <<-1, 1>> >>)
\* the row block of the chare between two others
MidBlk == CSR(1, << <<1, -1>>, <<-1, 1>> >>)
\* local row block of a chare of the star: shared node first, own node second
StarBlk == CSR(1, << <<1, -1>>, <<-1, 2>> >>)

\* the linear systems: chare id -> constructor arguments
\* serial: one chare, empty gid, lid and node communication map
Serial(A, b, x) == 0 :> Arg(A, x, b, <<>>, <<>>, <<>>)
\* two chares; global nodes 0,1,2; node 1 is shared; chare 1 stores node 2 first
Two(b, x) ==
     0 :> Arg(EndBlk, <<x[1], x[2]>>, <<b[1], b[2]>>, <<0, 1>>,
              (0 :> 0) @@ (1 :> 1), 1 :> {1})
  @@ 1 :> Arg(EndBlk, <<x[3], x[2]>>, <<b[3], b[2]>>, <<2, 1>>,
              (2 :> 0) @@ (1 :> 1), 0 :> {1})
\* three chares in a line; global nodes 0..3; chares 0 and 1 share node 1,
\* chares 1 and 2 share node 2; the sum of the blocks is tridiag(-1,2,-1)
Line(b, x) ==
     0 :> Arg(EndBlk, <<x[1], x[2]>>, <<b[1], b[2]>>, <<0, 1>>,
              (0 :> 0) @@ (1 :> 1), 1 :> {1})
  @@ 1 :> Arg(MidBlk, <<x[2], x[3]>>, <<b[2], b[3]>>, <<1, 2>>,
              (1 :> 0) @@ (2 :> 1), (0 :> {1}) @@ (2 :> {2}))
  @@ 2 :> Arg(EndBlk, <<x[4], x[3]>>, <<b[4], b[3]>>, <<3, 2>>,
              (3 :> 0) @@ (2 :> 1), 1 :> {2})
\* three chares; global node 0 is shared by all three, node c+1 is chare c's own
Star(b, x) ==
  [c \in 0 .. 2 |->
     Arg(StarBlk, <<x[1], x[c + 2]>>, <<b[1], b[c + 2]>>, <<0, c + 1>>,
         (0 :> 0) @@ ((c + 1) :> 1),
         [n \in (0 .. 2) \ {c} |-> {0}])]

\* spd: A is symmetric positive definite and b, x agree on the shared nodes
Systems ==
  [ serial  |-> [spd |-> TRUE,  arg |-> Serial(Lap2, <<1, 0>>, <<0, 0>>)],
    zero    |-> [spd |-> FALSE, arg |-> Serial(Zero2, <<1, 1>>, <<0, 0>>)],
    indef   |-> [spd |-> FALSE, arg |-> Serial(Indef2, <<1, 2>>, <<0, 0>>)],
    late    |-> [spd |-> FALSE, arg |-> Serial(Indef2, <<2, 1>>, <<0, 0>>)],
    two     |-> [spd |-> TRUE,  arg |-> Two(<<0, 2, 0>>, <<0, 1, 0>>)],
    solved  |-> [spd |-> TRUE,  arg |-> Two(<<0, 2, 0>>, <<1, 2, 1>>)],
    line    |-> [spd |-> TRUE,  arg |-> Line(<<2, 0, 0, 2>>, <<1, 0, 0, 1>>)],
    star    |-> [spd |-> TRUE,  arg |-> Star(<<0, 2, 2, 0>>, <<0, 1, 1, 0>>)] ]

SystemNames == DOMAIN Systems

\* the tolerances the callers pass to solve()
Tols == {Zero, Frac(1, 2)}

---------------------------------------------------------------------------
(* src/Mesh/CommMap.cpp *)

\* slave() without the comparison of chare ids: every holder of a shared
\* node leaves it to the others
slave_nocompare(map, node, chare) ==
  \E s \in DOMAIN map : node \in map[s]

\* tk::slave: the node is in the map under a chare s with s > chare
slave(map, node, chare) ==
  \E s \in DOMAIN map : node \in map[s] /\ s > chare

---------------------------------------------------------------------------
(* ConjugateGradients: constructor *)

\* the image of a vector indexed from 0
Range(f) == {f[i] : i \in DOMAIN f}

ConjugateGradients(thisIndex, A, x, b, gid, lid, nodecommmap) ==
  LET serial == gid = <<>> \/ lid = <<>> \/ nodecommmap = <<>>
      m_gid  == IF serial THEN [i \in 0 .. Size(x) - 1 |-> i] ELSE gid
      m_lid  == IF serial
                THEN [g \in DOMAIN lid \cup Range(m_gid) |->
                        IF g \in Range(m_gid) THEN g ELSE lid[g]]
                ELSE lid
      sizes  == /\ A.rsize = Size(m_gid) * A.ncomp
                /\ Size(x) = Size(m_gid) * A.ncomp
                /\ Size(b) = Size(m_gid) * A.ncomp
  IN  [ thisIndex |-> thisIndex,
        m_A |-> A, m_x |-> x, m_b |-> b, m_gid |-> m_gid, m_lid |-> m_lid,
        m_nodeCommMap |-> nodecommmap,
        m_r |-> Zeros(A.rsize), m_rc |-> <<>>, m_nr |-> 0,
        m_p |-> Zeros(A.rsize), m_q |-> Zeros(A.rsize), m_qc |-> <<>>, m_nq |-> 0,
        m_normb |-> Sqrt(Zero), m_it |-> 0,
        m_rho |-> Zero, m_rho0 |-> Zero, m_alpha |-> Zero,
        \* m_maxit and m_tol are set by solve() before they are read
        m_maxit |-> 0, m_tol |-> Zero,
        \* structured-dagger state: active when-clauses and buffered triggers
        w4res |-> 0, ownres |-> 0, comresc |-> 0, normbc |-> 0,
        w4q |-> 0, ownq |-> 0, comqc |-> 0,
        \* what the running handler has sent, moved to the network by the action
        out |-> {}, con |-> <<>>,
        \* the solver's life-cycle state and what the caller has seen
        phase |-> IF sizes THEN "Constructed" ELSE "SizeMismatch",
        ncalls |-> 0, ninit |-> 0, nsolved |-> 0, norm |-> Sqrt(Zero),
        at |-> "ctor", oob |-> FALSE,
        \* history: rounds started (own mult done), messages sent, merges
        \* done, the senders <<chare, round>> held in m_rc and m_qc, and the
        \* last merge: its round, the senders merged, the own rounds started
        nres |-> 0, sentres |-> 0, mres |-> 0, rcfrom |-> {},
        nqap |-> 0, sentq |-> 0, mq |-> 0, qcfrom |-> {},
        merged |-> [kind |-> "none", from |-> {}, rnd |-> 0, own |-> 0],
        rhoprev |-> Zero,
        atsolve |-> [x |-> x, r |-> Zeros(A.rsize), p |-> Zeros(A.rsize),
                     q |-> Zeros(A.rsize), qaps |-> 0] ]


---------------------------------------------------------------------------
(* ConjugateGradients: entry methods.  s is the chare's state before the   *)
(* handler, the value is its state after it.                               *)

\* dst += src on std::vector (tk::operator+=): dst grows to src's size
VAdd(dst, src) ==
  [i \in DOMAIN dst \cup DOMAIN src |->
     IF i \notin DOMAIN dst THEN src[i]
     ELSE IF i \notin DOMAIN src THEN dst[i]
     ELSE RAdd(dst[i], src[i])]

\* thisProxy[ thisIndex ].<entry>(): an invocation of one's own entry method
Self(s, entry, n) ==
  [kind |-> entry, to |-> s.thisIndex, from |-> s.thisIndex, rnd |-> n,
   val |-> <<>>]

\* the local value handed straight to one's own callback, with no reduction
contribute_self(s, d, c) ==
  [s EXCEPT !.out = @ \cup {[kind |-> c, to |-> s.thisIndex,
                             from |-> s.thisIndex, rnd |-> 0, val |-> d]}]

\* contribute( d, CkReduction::sum_double, c )
contribute(s, d, c) == [s EXCEPT !.con = Append(@, [cb |-> c, val |-> d])]

\* dot( a, b, c ): the local part of (a,b), slave nodes left out.  m_gid[i]
\* is read for every index i of a; past the end of m_gid the read is
\* undefined and gives whatever lies there (the chare's field beyond)
dot(s, a, b, c) ==
  LET gid(i) == IF i \in DOMAIN s.m_gid THEN s.m_gid[i] ELSE s.beyond[i]
      term == [i \in DOMAIN a |->
                 IF slave(s.m_nodeCommMap, gid(i), s.thisIndex)
                 THEN Zero ELSE RMul(a[i], b[i])]
      d    == RSum(term, DOMAIN a)
  IN  contribute([s EXCEPT !.oob = @ \/ ~(DOMAIN a \subseteq DOMAIN s.m_gid)],
                 d, c)

\* the partial products at the nodes n shared with a fellow chare
AtNodes(s, v, n) ==
  LET dof == s.m_A.ncomp
  IN  [g \in n |-> [d \in 0 .. dof - 1 |-> v[s.m_lid[g] * dof + d]]]

\* the own vector alone, the communicated contributions left out
Combine_own(s, v, c) == v

\* v with the communicated contributions c (global id -> dof values) added
Combine(s, v, c) ==
  LET dof == s.m_A.ncomp
      hit(i) == {g \in DOMAIN c : s.m_lid[g] = i \div dof}
  IN  [i \in DOMAIN v |->
         RAdd(v[i], RSum([g \in hit(i) |-> c[g][i % dof]], hit(i)))]

\* initres() that leaves the communicated contributions out of r
initres_nomerge(s) ==
  LET r2 == [i \in DOMAIN s.m_r |-> RMul(R(-1), s.m_r[i])]
      r3 == VAdd(r2, s.m_b)
  IN  [s EXCEPT !.m_r = r3, !.m_rc = <<>>,
                !.ninit = @ + 1, !.norm = s.m_normb,
                !.phase = "ReadyToIterate", !.at = "initres",
                !.mres = @ + 1,
                !.merged = [kind |-> "res", from |-> s.rcfrom,
                            rnd |-> s.mres + 1, own |-> s.nres],
                !.rcfrom = {}]

\* initres(): r = b - A * x, then the init continuation is sent
initres(s) ==
  LET r1 == Combine(s, s.m_r, s.m_rc)
      r2 == [i \in DOMAIN r1 |-> RMul(R(-1), r1[i])]
      r3 == VAdd(r2, s.m_b)
  IN  [s EXCEPT !.m_r = r3, !.m_rc = <<>>,
                !.ninit = @ + 1, !.norm = s.m_normb,
                !.phase = "ReadyToIterate", !.at = "initres",
                !.mres = @ + 1,
                !.merged = [kind |-> "res", from |-> s.rcfrom,
                            rnd |-> s.mres + 1, own |-> s.nres],
                !.rcfrom = {}]

\* wait4res: when ownres_complete(), comres_complete(), normb_complete()
\* serial { initres(); }
when_res(s) ==
  IF s.w4res > 0 /\ s.ownres > 0 /\ s.comresc > 0 /\ s.normbc > 0
  THEN initres([s EXCEPT !.w4res = @ - 1, !.ownres = @ - 1,
                         !.comresc = @ - 1, !.normbc = @ - 1])
  ELSE s
wait4res(s)        == when_res([s EXCEPT !.w4res = @ + 1])
ownres_complete(s) == when_res([s EXCEPT !.ownres = @ + 1])
comres_complete(s) == when_res([s EXCEPT !.comresc = @ + 1])
normb_complete(s)  == when_res([s EXCEPT !.normbc = @ + 1])

\* normb() that signals completion without storing the norm
normb_unset(s, n) == normb_complete(s)

\* normb( n ): the reduced (b,b)
normb(s, n) == normb_complete([s EXCEPT !.m_normb = Sqrt(n)])

\* residual() that empties the accumulator when it starts the round
residual_clear(s) ==
  LET s1 == [s EXCEPT !.m_r = mult(s.m_A, s.m_x), !.nres = @ + 1,
                      !.m_rc = <<>>, !.rcfrom = {}]
      s2 == IF s1.m_nodeCommMap = <<>>
            THEN comres_complete(s1)
            ELSE [s1 EXCEPT
                    !.sentres = @ + Cardinality(DOMAIN s1.m_nodeCommMap),
                    !.out = @ \cup
                    {[kind |-> "comres", to |-> c, from |-> s1.thisIndex,
                      rnd |-> s1.nres,
                      val |-> AtNodes(s1, s1.m_r, s1.m_nodeCommMap[c])]
                     : c \in DOMAIN s1.m_nodeCommMap}]
  IN  ownres_complete(s2)

\* residual(): own part of A * x, sent to the fellow chares
residual(s) ==
  LET s1 == [s EXCEPT !.m_r = mult(s.m_A, s.m_x), !.nres = @ + 1]
      s2 == IF s1.m_nodeCommMap = <<>>
            THEN comres_complete(s1)
            ELSE [s1 EXCEPT
                    !.sentres = @ + Cardinality(DOMAIN s1.m_nodeCommMap),
                    !.out = @ \cup
                    {[kind |-> "comres", to |-> c, from |-> s1.thisIndex,
                      rnd |-> s1.nres,
                      val |-> AtNodes(s1, s1.m_r, s1.m_nodeCommMap[c])]
                     : c \in DOMAIN s1.m_nodeCommMap}]
  IN  ownres_complete(s2)

\* the accumulator with = in place of +=: a contribution overwrites
Accumulate_overwrite(acc, val) ==
  [g \in DOMAIN acc \cup DOMAIN val |->
     IF g \notin DOMAIN val THEN acc[g] ELSE val[g]]

\* m_rc[ gid[i] ] += rc[i] for all i
Accumulate(acc, val) ==
  [g \in DOMAIN acc \cup DOMAIN val |->
     IF g \notin DOMAIN val THEN acc[g]
     ELSE IF g \notin DOMAIN acc THEN VAdd(<<>>, val[g])
     ELSE VAdd(acc[g], val[g])]

\* comres() that takes the round for complete at the first message
comres_first(s, m) ==
  comres_complete([s EXCEPT !.m_rc = Accumulate(@, m.val),
                            !.rcfrom = @ \cup {<<m.from, m.rnd>>}])

\* comres( gid, rc ): a fellow chare's contribution to A * x
comres(s, m) ==
  LET s1 == [s EXCEPT !.m_rc = Accumulate(@, m.val), !.m_nr = @ + 1,
                      !.rcfrom = @ \cup {<<m.from, m.rnd>>}]
  IN  IF s1.m_nr = Cardinality(DOMAIN s1.m_nodeCommMap)
      THEN comres_complete([s1 EXCEPT !.m_nr = 0])
      ELSE s1

\* init( c )
init(s) ==
  LET s1 == [s EXCEPT !.phase = "Initializing", !.at = "init",
                      !.ncalls = @ + 1,
                      !.out = @ \cup {Self(s, "wait4res", s.ncalls + 1)}]
      s2 == residual(s1)
  IN  dot(s2, s2.m_b, s2.m_b, "normb")


\* next(): start the next iteration with rho = (r,r)
next(s) == dot([s EXCEPT !.at = "next"], s.m_r, s.m_r, "rho")

\* solve() that keeps the iteration count of the solve() before
solve_keepit(s, mxit, tl) ==
  next([s EXCEPT !.m_maxit = mxit, !.m_tol = tl,
                 !.phase = "Iterating", !.ncalls = @ + 1,
                 !.atsolve = [x |-> s.m_x, r |-> s.m_r, p |-> s.m_p,
                              q |-> s.m_q, qaps |-> s.nqap]])

\* solve( maxit, tol, c )
solve(s, mxit, tl) ==
  next([s EXCEPT !.m_maxit = mxit, !.m_tol = tl, !.m_it = 0,
                 !.phase = "Iterating", !.ncalls = @ + 1,
                 !.atsolve = [x |-> s.m_x, r |-> s.m_r, p |-> s.m_p,
                              q |-> s.m_q, qaps |-> s.nqap]])

\* q(): q = A * p complete, then (p,q)
q(s) ==
  LET s1 == [s EXCEPT !.m_q = Combine(s, s.m_q, s.m_qc), !.m_qc = <<>>,
                      !.at = "q", !.mq = @ + 1,
                      !.merged = [kind |-> "q", from |-> s.qcfrom,
                                  rnd |-> s.mq + 1, own |-> s.nqap],
                      !.qcfrom = {}]
  IN  dot(s1, s1.m_p, s1.m_q, "pq")

\* wait4q: when ownq_complete(), comq_complete() serial { q(); }
when_q(s) ==
  IF s.w4q > 0 /\ s.ownq > 0 /\ s.comqc > 0
  THEN q([s EXCEPT !.w4q = @ - 1, !.ownq = @ - 1, !.comqc = @ - 1])
  ELSE s
wait4q(s)        == when_q([s EXCEPT !.w4q = @ + 1])
ownq_complete(s) == when_q([s EXCEPT !.ownq = @ + 1])
comq_complete(s) == when_q([s EXCEPT !.comqc = @ + 1])

\* qAp() that sends its part and takes the fellow chares' parts for received
qAp_nowait(s) ==
  LET s1 == [s EXCEPT !.m_q = mult(s.m_A, s.m_p), !.nqap = @ + 1]
      s2 == [s1 EXCEPT
               !.sentq = @ + Cardinality(DOMAIN s1.m_nodeCommMap),
               !.out = @ \cup
               {[kind |-> "comq", to |-> c, from |-> s1.thisIndex,
                 rnd |-> s1.nqap,
                 val |-> AtNodes(s1, s1.m_q, s1.m_nodeCommMap[c])]
                : c \in DOMAIN s1.m_nodeCommMap}]
  IN  ownq_complete(comq_complete(s2))

\* qAp(): own part of q = A * p, sent to the fellow chares
qAp(s) ==
  LET s1 == [s EXCEPT !.m_q = mult(s.m_A, s.m_p), !.nqap = @ + 1]
      s2 == IF s1.m_nodeCommMap = <<>>
            THEN comq_complete(s1)
            ELSE [s1 EXCEPT
                    !.sentq = @ + Cardinality(DOMAIN s1.m_nodeCommMap),
                    !.out = @ \cup
                    {[kind |-> "comq", to |-> c, from |-> s1.thisIndex,
                      rnd |-> s1.nqap,
                      val |-> AtNodes(s1, s1.m_q, s1.m_nodeCommMap[c])]
                     : c \in DOMAIN s1.m_nodeCommMap}]
  IN  ownq_complete(s2)

\* comq() that does not count the message
comq_nocount(s, m) ==
  [s EXCEPT !.m_qc = Accumulate(@, m.val),
            !.qcfrom = @ \cup {<<m.from, m.rnd>>}]

\* comq( gid, qc ): a fellow chare's contribution to q = A * p
comq(s, m) ==
  LET s1 == [s EXCEPT !.m_qc = Accumulate(@, m.val), !.m_nq = @ + 1,
                      !.qcfrom = @ \cup {<<m.from, m.rnd>>}]
  IN  IF s1.m_nq = Cardinality(DOMAIN s1.m_nodeCommMap)
      THEN comq_complete([s1 EXCEPT !.m_nq = 0])
      ELSE s1

\* the step length with rho0/rho in place of rho/rho0
Alpha_inverse(it, rh, rh0) == IF it = 0 THEN Zero ELSE RDiv(rh0, rh)

\* the step length without the test for the first iteration
Alpha_always(it, rh, rh0) == RDiv(rh, rh0)

\* the step length of rho(): 0 in the first iteration, else rho/rho0
Alpha(it, rh, rh0) == IF it = 0 THEN Zero ELSE RDiv(rh, rh0)

\* rho() that starts q = A * p before it has computed the new p
rho_qfirst(s, r) ==
  LET alpha == Alpha(s.m_it, r, s.m_rho0)
      s1 == qAp([s EXCEPT !.out = @ \cup {Self(s, "wait4q", s.nqap + 1)}])
  IN  [s1 EXCEPT !.m_rho = r, !.m_alpha = alpha, !.m_rho0 = r,
                 !.rhoprev = s.m_rho,
                 !.m_p = [i \in DOMAIN s.m_p |->
                            RAdd(s.m_r[i], RMul(alpha, s.m_p[i]))],
                 !.at = "rho"]

\* rho( r ): the reduced rho = (r,r); p = r + alpha * p; start q = A * p
rho(s, r) ==
  LET alpha == Alpha(s.m_it, r, s.m_rho0)
      s1 == [s EXCEPT !.m_rho = r, !.m_alpha = alpha, !.m_rho0 = r,
                      !.rhoprev = s.m_rho,
                      !.m_p = [i \in DOMAIN s.m_p |->
                                 RAdd(s.m_r[i], RMul(alpha, s.m_p[i]))],
                      !.at = "rho",
                      !.out = @ \cup {Self(s, "wait4q", s.nqap + 1)}]
  IN  qAp(s1)

\* d > 1.0e-14, computed without leaving 32 bits (d = n/m with m > 0):
\* n * 10^14 > m  iff  n > (m div 10^7) div 10^7
E7 == 10000000
\* the test d != 0 in place of d > 1.0e-14
GtEps_nonzero(d) == ~IsNaN(d) /\ d[1] # 0
GtEps(d) == ~IsNaN(d) /\ d[1] > (d[2] \div E7) \div E7

\* a failed Assert( expr, message ): the handler is left by an exception and
\* the chare runs nothing more
Throw(s) == [s EXCEPT !.phase = "Fatal", !.at = "fatal"]

\* pq() that starts the next iteration's rho without waiting for (r,r)
pq_eager(s, d) ==
  IF ~GtEps(d)
  THEN Throw(s)
  ELSE LET alpha == RDiv(s.m_rho, d)
           s1 == [s EXCEPT !.m_alpha = alpha, !.at = "pq",
                           !.m_r = [i \in DOMAIN s.m_r |->
                                      RSub(s.m_r[i], RMul(alpha, s.m_q[i]))]]
           s2 == dot(s1, s1.m_r, s1.m_r, "normres")
       IN  dot(s2, s2.m_r, s2.m_r, "rho")

\* pq() that updates r before it tests (p,q)
pq_updatefirst(s, d) ==
  LET alpha == RDiv(s.m_rho, d)
      s1 == [s EXCEPT !.m_alpha = alpha, !.at = "pq",
                      !.m_r = [i \in DOMAIN s.m_r |->
                                 RSub(s.m_r[i], RMul(alpha, s.m_q[i]))]]
  IN  IF ~GtEps(d) THEN Throw(s1) ELSE dot(s1, s1.m_r, s1.m_r, "normres")

\* pq( d ): the reduced (p,q); r = r - alpha * q; then (r,r)
pq(s, d) ==
  IF ~GtEps(d)
  THEN \* "Conjugate Gradients: (p,q) orthogonal, wrong/no BC?"
       Throw(s)
  ELSE LET alpha == RDiv(s.m_rho, d)
           s1 == [s EXCEPT !.m_alpha = alpha, !.at = "pq",
                           !.m_r = [i \in DOMAIN s.m_r |->
                                      RSub(s.m_r[i], RMul(alpha, s.m_q[i]))]]
       IN  dot(s1, s1.m_r, s1.m_r, "normres")

\* a * 10^k > b for a, b >= 0, without leaving 32 bits: a is scaled up only
\* as long as it does not exceed b
RECURSIVE Up(_, _, _)
Up(a, b, k) ==
  IF k = 0 \/ RGt(a, b) THEN RGt(a, b)
  ELSE IF a = Zero THEN FALSE
  ELSE Up(RMul(R(10), a), b, k - 1)

\* the mantissa n/d of a tolerance; a tolerance too small for <<n, d>> is
\* held as <<n, d, k>>, the value n/d * 10^-k
Mant(tl) == <<tl[1], tl[2]>>

\* the comparison with the power of ten of the tolerance left out
GtTol_unscaled(norm, tl, nb) ==
  RGt(norm.sq, RMul(RMul(Mant(tl), Mant(tl)), nb.sq))

\* norm > m_tol * m_normb for two roots and a tolerance tl >= 0
GtTol(norm, tl, nb) ==
  IF Len(tl) = 2
  THEN RGt(norm.sq, RMul(RMul(tl, tl), nb.sq))
  ELSE Up(norm.sq, RMul(RMul(Mant(tl), Mant(tl)), nb.sq), 2 * tl[3])

\* the test with m_it <= m_maxit in place of m_it < m_maxit
Continue_le(it, mxit, norm, tl, nb) == it <= mxit /\ GtTol(norm, tl, nb)

\* m_it < m_maxit && norm > m_tol*m_normb
Continue(it, mxit, norm, tl, nb) == it < mxit /\ GtTol(norm, tl, nb)

\* normres() that tests the norm of the chare's own part of r
normres_local(s, r) ==
  LET norm == Sqrt(r)
      own  == Sqrt(RSum([i \in DOMAIN s.m_r |-> RMul(s.m_r[i], s.m_r[i])],
                        DOMAIN s.m_r))
      s1 == [s EXCEPT !.m_x = [i \in DOMAIN s.m_x |->
                                 RAdd(s.m_x[i], RMul(s.m_alpha, s.m_p[i]))],
                      !.m_it = @ + 1]
  IN  IF Continue(s1.m_it, s1.m_maxit, own, s1.m_tol, s1.m_normb)
      THEN next(s1)
      ELSE [s1 EXCEPT !.nsolved = @ + 1, !.norm = norm, !.at = "done",
                      !.phase = IF GtTol(norm, s1.m_tol, s1.m_normb)
                                THEN "MaxIterExceeded" ELSE "Converged"]

\* normres() that advances x by p in place of alpha * p
normres_unit(s, r) ==
  LET norm == Sqrt(r)
      s1 == [s EXCEPT !.m_x = [i \in DOMAIN s.m_x |->
                                 RAdd(s.m_x[i], s.m_p[i])],
                      !.m_it = @ + 1]
  IN  IF Continue(s1.m_it, s1.m_maxit, norm, s1.m_tol, s1.m_normb)
      THEN next(s1)
      ELSE [s1 EXCEPT !.nsolved = @ + 1, !.norm = norm, !.at = "done",
                      !.phase = IF GtTol(norm, s1.m_tol, s1.m_normb)
                                THEN "MaxIterExceeded" ELSE "Converged"]

\* normres( r ): the reduced (r,r); x = x + alpha * p; continue or finish
normres(s, r) ==
  LET norm == Sqrt(r)
      s1 == [s EXCEPT !.m_x = [i \in DOMAIN s.m_x |->
                                 RAdd(s.m_x[i], RMul(s.m_alpha, s.m_p[i]))],
                      !.m_it = @ + 1]
  IN  IF Continue(s1.m_it, s1.m_maxit, norm, s1.m_tol, s1.m_normb)
      THEN next(s1)
      ELSE [s1 EXCEPT !.nsolved = @ + 1, !.norm = norm, !.at = "done",
                      !.phase = IF GtTol(norm, s1.m_tol, s1.m_normb)
                                THEN "MaxIterExceeded" ELSE "Converged"]


---------------------------------------------------------------------------
(* The state machine *)

Chares == DOMAIN chares

Init ==
  /\ input \in SystemNames
  /\ maxit \in 0 .. MaxIt
  /\ tol \in Tols
  /\ chares = [c \in DOMAIN Systems[input].arg |->
                 LET a == Systems[input].arg[c]
                 IN  ConjugateGradients(c, a.A, a.x, a.b, a.gid, a.lid, a.ncm)]
  /\ msgs = {}
  /\ red = [c \in DOMAIN Systems[input].arg |-> <<>>]
  /\ script = <<>>

\* chare c has run a handler that took the messages del and left it in s
Run(c, s, del) ==
  /\ chares' = [chares EXCEPT ![c] = [s EXCEPT !.out = {}, !.con = <<>>]]
  /\ msgs' = (msgs \ del) \cup s.out
  /\ red' = [red EXCEPT ![c] = @ \o s.con]

\* the caller of chare c is not inside a call and the solver has not failed
Idle(c) ==
  chares[c].phase \in {"Constructed", "ReadyToIterate", "Converged",
                       "MaxIterExceeded"}

\* the callers of all chares make the same calls in the same order, each at
\* its own pace: the k-th call of c is the k-th call of the script
Call(c, op) ==
  LET k == chares[c].ncalls + 1
  IN  /\ k <= MaxCalls
      /\ IF k <= Len(script)
         THEN script[k] = op /\ script' = script
         ELSE script' = Append(script, op)

\* the caller of c calls init(), not right after another init()
CallInit(c) ==
  /\ Idle(c)
  /\ IF chares[c].ncalls = 0 THEN TRUE ELSE script[chares[c].ncalls] # "init"
  /\ Call(c, "init")
  /\ Run(c, init(chares[c]), {})
  /\ UNCHANGED <<input, maxit, tol>>

\* the caller of c calls init() again right after its first init() has
\* completed
CallInitAgain(c) ==
  /\ Idle(c)
  /\ chares[c].ncalls = 1
  /\ Call(c, "init")
  /\ Run(c, init(chares[c]), {})
  /\ UNCHANGED <<input, maxit, tol>>

\* the caller of c calls solve( maxit, tol ) once init() has completed
CallSolve(c) ==
  /\ Idle(c) /\ chares[c].phase # "Constructed"
  /\ Call(c, "solve")
  /\ Run(c, solve(chares[c], maxit, tol), {})
  /\ UNCHANGED <<input, maxit, tol>>

\* an invocation in flight for a chare that has not failed
Arrives(m, kind) == m.kind = kind /\ chares[m.to].phase # "Fatal"

DeliverWait4res ==
  \E m \in msgs : /\ Arrives(m, "wait4res")
                  /\ Run(m.to, wait4res(chares[m.to]), {m})
                  /\ UNCHANGED <<script, input, maxit, tol>>

DeliverComres ==
  \E m \in msgs : /\ Arrives(m, "comres")
                  /\ Run(m.to, comres(chares[m.to], m), {m})
                  /\ UNCHANGED <<script, input, maxit, tol>>

DeliverNormb ==
  \E m \in msgs : /\ Arrives(m, "normb")
                  /\ Run(m.to, normb(chares[m.to], m.val), {m})
                  /\ UNCHANGED <<script, input, maxit, tol>>

DeliverRho ==
  \E m \in msgs : /\ Arrives(m, "rho")
                  /\ Run(m.to, rho(chares[m.to], m.val), {m})
                  /\ UNCHANGED <<script, input, maxit, tol>>

DeliverWait4q ==
  \E m \in msgs : /\ Arrives(m, "wait4q")
                  /\ Run(m.to, wait4q(chares[m.to]), {m})
                  /\ UNCHANGED <<script, input, maxit, tol>>

DeliverComq ==
  \E m \in msgs : /\ Arrives(m, "comq")
                  /\ Run(m.to, comq(chares[m.to], m), {m})
                  /\ UNCHANGED <<script, input, maxit, tol>>

DeliverPq ==
  \E m \in msgs : /\ Arrives(m, "pq")
                  /\ Run(m.to, pq(chares[m.to], m.val), {m})
                  /\ UNCHANGED <<script, input, maxit, tol>>

DeliverNormres ==
  \E m \in msgs : /\ Arrives(m, "normres")
                  /\ Run(m.to, normres(chares[m.to], m.val), {m})
                  /\ UNCHANGED <<script, input, maxit, tol>>

\* the sum reduction: once every chare has contributed, the sum of the oldest
\* contributions is sent to the reduction target on every chare
Reduce ==
  /\ \A c \in Chares : red[c] # <<>>
  /\ \E c0 \in Chares :
       msgs' = msgs \cup
         {[kind |-> Head(red[c0]).cb, to |-> c, from |-> c, rnd |-> 0,
           val |-> RSum([d \in Chares |-> Head(red[d]).val], Chares)]
          : c \in Chares}
  /\ red' = [c \in Chares |-> Tail(red[c])]
  /\ UNCHANGED <<chares, script, input, maxit, tol>>

Next ==
  \/ \E c \in Chares : CallInit(c)
  \/ \E c \in Chares : CallSolve(c)
  \/ DeliverWait4res
  \/ DeliverComres
  \/ DeliverNormb
  \/ DeliverRho
  \/ DeliverWait4q
  \/ DeliverComq
  \/ DeliverPq
  \/ DeliverNormres
  \/ Reduce

Spec == Init /\ [][Next]_vars

\* every chare id of every system
ChareIds == UNION {DOMAIN Systems[n].arg : n \in SystemNames}

\* the caller of c makes a call that the caller of another chare has made
Follow(c) ==
  /\ c \in Chares
  /\ chares[c].ncalls < Len(script)
  /\ CallInit(c) \/ CallSolve(c)

\* a step of the runtime system or of a caller that follows the others
Progress ==
  \/ DeliverWait4res \/ DeliverComres \/ DeliverNormb \/ DeliverRho
  \/ DeliverWait4q \/ DeliverComq \/ DeliverPq \/ DeliverNormres
  \/ Reduce
  \/ \E c \in ChareIds : Follow(c)

\* a step of Progress is possible (ENABLED <<Progress>>_vars, written as a
\* predicate of the state): an invocation is in flight for a chare that has
\* not failed, every chare has contributed to the next reduction, or an idle
\* caller is behind the others
ProgressEnabled ==
  \/ \E m \in msgs : chares[m.to].phase # "Fatal"
  \/ \A c \in Chares : red[c] # <<>>
  \/ \E c \in Chares : chares[c].ncalls < Len(script) /\ Idle(c)

\* reliable delivery, weak fairness of Progress (WF_vars(Progress) with its
\* enabling condition written out): as long as there is something to run,
\* something is run
Fairness == []<>(~ProgressEnabled) \/ []<><<Progress>>_vars

\* the systems of one failing chare, of two chares and of three in a line
InitFair == Init /\ input \in {"zero", "two", "line"}

SpecFair == InitFair /\ [][Next]_vars /\ Fairness

\* tridiag(-1,2,-1) on 5 nodes held by one chare, and its row block on the
\* nodes 0,1,2 (node 2 shared with the chare holding 2,3,4)
Lap5 == CSR(1, << <<2, -1, 0, 0, 0>>, <<-1, 2, -1, 0, 0>>, <<0, -1, 2, -1, 0>>,
                  <<0, 0, -1, 2, -1>>, <<0, 0, 0, -1, 2>> >>)
HalfBlk == CSR(1, << <<2, -1, 0>>, <<-1, 2, -1>>, <<0, -1, 1>> >>)

\* a local-id map from the tuple of global ids
LidOf(gid) == [g \in {gid[i] : i \in 1 .. Len(gid)} |->
                 (CHOOSE i \in 1 .. Len(gid) : gid[i] = g) - 1]

\* one global system A x = b on the nodes 0..4 with initial guess x, held by
\* one chare, by two chares and by four chares (b, x indexed by node + 1)
Partitions(b, x) ==
  [ one  |-> Serial(Lap5, b, x),
    two  |->    0 :> Arg(HalfBlk, <<x[1], x[2], x[3]>>, <<b[1], b[2], b[3]>>,
                         <<0, 1, 2>>, LidOf(<<0, 1, 2>>), 1 :> {2})
             @@ 1 :> Arg(HalfBlk, <<x[5], x[4], x[3]>>, <<b[5], b[4], b[3]>>,
                         <<4, 3, 2>>, LidOf(<<4, 3, 2>>), 0 :> {2}),
    four |->    0 :> Arg(EndBlk, <<x[1], x[2]>>, <<b[1], b[2]>>,
                         <<0, 1>>, LidOf(<<0, 1>>), 1 :> {1})
             @@ 1 :> Arg(MidBlk, <<x[2], x[3]>>, <<b[2], b[3]>>,
                         <<1, 2>>, LidOf(<<1, 2>>), (0 :> {1}) @@ (2 :> {2}))
             @@ 2 :> Arg(MidBlk, <<x[3], x[4]>>, <<b[3], b[4]>>,
                         <<2, 3>>, LidOf(<<2, 3>>), (1 :> {2}) @@ (3 :> {3}))
             @@ 3 :> Arg(EndBlk, <<x[5], x[4]>>, <<b[5], b[4]>>,
                         <<4, 3>>, LidOf(<<4, 3>>), 2 :> {3}) ]

\* the global system the partitions are of
Parts == Partitions(<<0, 0, 1, 0, 1>>, <<0, 0, 1, 1, 1>>)

\* the chare array built from the constructor arguments args
Array(args) ==
  [c \in DOMAIN args |->
     ConjugateGradients(c, args[c].A, args[c].x, args[c].b, args[c].gid,
                        args[c].lid, args[c].ncm)]

\* one of the three partitionings, solved to the full tolerance
InitParts ==
  /\ input \in DOMAIN Parts
  /\ maxit \in 0 .. MaxIt
  /\ tol = Zero
  /\ chares = Array(Parts[input])
  /\ msgs = {}
  /\ red = [c \in DOMAIN Parts[input] |-> <<>>]
  /\ script = <<>>

\* the callers have made no call but init() and then solve()
InitThenSolve == Len(script) <= Len(<<"init", "solve">>)

\* the callers call init() and then solve(), once each
NextParts ==
  \/ \E c \in Chares : CallInit(c) /\ InitThenSolve'
  \/ \E c \in Chares : CallSolve(c) /\ InitThenSolve'
  \/ DeliverWait4res
  \/ DeliverComres
  \/ DeliverNormb
  \/ DeliverRho
  \/ DeliverWait4q
  \/ DeliverComq
  \/ DeliverPq
  \/ DeliverNormres
  \/ Reduce

SpecParts == InitParts /\ [][NextParts]_vars

\* tridiag(-1,2,-1) on 4 nodes
Lap4 == CSR(1, << <<2, -1, 0, 0>>, <<-1, 2, -1, 0>>, <<0, -1, 2, -1>>,
                  <<0, 0, -1, 2>> >>)

\* the single-partition run of A = tridiag(-1,2,-1), b = (1,0,0,1), x0 = 0
Scenario == Serial(Lap4, <<1, 0, 0, 1>>, <<0, 0, 0, 0>>)

\* tol = 1e-10
TolScenario == <<1, 1, 10>>

\* the single partition, solved with maxit up to 10 and tol = 1e-10
InitSerial ==
  /\ input = "scenario"
  /\ maxit \in 0 .. 10
  /\ tol = TolScenario
  /\ chares = Array(Scenario)
  /\ msgs = {}
  /\ red = [c \in DOMAIN Scenario |-> <<>>]
  /\ script = <<>>

\* the steps of a chare without fellow chares
NextSerial ==
  \/ \E c \in Chares : CallInit(c)
  \/ \E c \in Chares : CallSolve(c)
  \/ DeliverWait4res
  \/ DeliverNormb
  \/ DeliverRho
  \/ DeliverWait4q
  \/ DeliverPq
  \/ DeliverNormres
  \/ Reduce

SpecSerial == InitSerial /\ [][NextSerial]_vars

\* chare arrays that differ in the maps they are constructed with: all maps
\* given; gid and lid empty, NodeCommMap given (local ids 0, 1 on both
\* chares, node 1 shared); everything empty; gid and lid given, NodeCommMap
\* empty
MapCases ==
  [ given  |-> Two(<<0, 2, 0>>, <<0, 1, 0>>),
    nogid  |->    0 :> Arg(EndBlk, <<0, 1>>, <<0, 2>>, <<>>, <<>>, 1 :> {1})
               @@ 1 :> Arg(EndBlk, <<0, 1>>, <<0, 2>>, <<>>, <<>>, 0 :> {1}),
    serial |-> Serial(Lap2, <<1, 0>>, <<0, 0>>),
    alone  |-> 0 :> Arg(Lap2, <<0, 0>>, <<1, 0>>, <<5, 7>>, LidOf(<<5, 7>>),
                        <<>>) ]

\* one of the chare arrays, solved to the full tolerance
InitMaps ==
  /\ input \in DOMAIN MapCases
  /\ maxit \in 0 .. MaxIt
  /\ tol = Zero
  /\ chares = Array(MapCases[input])
  /\ msgs = {}
  /\ red = [c \in DOMAIN MapCases[input] |-> <<>>]
  /\ script = <<>>

SpecMaps == InitMaps /\ [][NextParts]_vars

\* largest number of local mesh nodes of a solver that is only constructed
MaxNodes == 2

\* an n x n matrix with ncomp components per node, and a tuple of n zeros
Eye(ncomp, n) ==
  CSR(ncomp, [i \in 1 .. n |-> [j \in 1 .. n |-> IF i = j THEN 1 ELSE 0]])
Tuple0(n) == [i \in 1 .. n |-> 0]

\* global ids of nn local nodes that are not their local ids
SomeGid(nn) == [i \in 1 .. nn |-> 2 * i + 3]

\* what a constructor may be called with: nnodes local mesh nodes of ncomp
\* components; A, x and b of the matching size or one off; gid and lid
\* given or empty; the NodeCommMap given or empty
CtorArgs ==
  { [nnodes |-> nn,
     arg |-> Arg(Eye(nc, nn * nc + da), Tuple0(nn * nc - dx),
                 Tuple0(nn * nc + db),
                 IF gg THEN SomeGid(nn) ELSE <<>>,
                 IF gl THEN LidOf(SomeGid(nn)) ELSE <<>>,
                 IF gm THEN 1 :> {SomeGid(nn)[1]} ELSE <<>>)] :
      nn \in 1 .. MaxNodes, nc \in 1 .. 2,
      da \in 0 .. 1, dx \in 0 .. 1, db \in 0 .. 1,
      gg \in BOOLEAN, gl \in BOOLEAN, gm \in BOOLEAN }

\* nothing is constructed yet; input holds the constructor's arguments
InitCtor ==
  /\ input \in CtorArgs
  /\ chares = <<>>
  /\ msgs = {}
  /\ red = <<>>
  /\ script = <<>>
  /\ maxit = 0
  /\ tol = Zero

\* the constructor runs
Construct ==
  /\ chares = <<>>
  /\ chares' = Array(0 :> input.arg)
  /\ red' = 0 :> <<>>
  /\ UNCHANGED <<msgs, script, input, maxit, tol>>

SpecCtor == InitCtor /\ [][Construct]_vars

\* a chare array and one boundary-exchange message of it that the network
\* never delivers: the comres or comq that chare from sends to its fellow
\* chare to in its round rnd
LossCases ==
  { [sys |-> n, lost |-> [kind |-> k, from |-> f, to |-> t, rnd |-> r]] :
      n \in {"two", "line"}, k \in {"comres", "comq"},
      f \in 0 .. 2, t \in 0 .. 2, r \in 1 .. MaxIt }

\* the message that is never delivered
IsLost(m) ==
  /\ m.kind = input.lost.kind /\ m.rnd = input.lost.rnd
  /\ m.from = input.lost.from /\ m.to = input.lost.to

InitLoss ==
  /\ input \in LossCases
  /\ input.lost.from \in DOMAIN Systems[input.sys].arg
  /\ input.lost.to \in DOMAIN Systems[input.sys].arg[input.lost.from].ncm
  /\ maxit = MaxIt
  /\ tol = Zero
  /\ chares = Array(Systems[input.sys].arg)
  /\ msgs = {}
  /\ red = [c \in DOMAIN Systems[input.sys].arg |-> <<>>]
  /\ script = <<>>

DeliverComresUnlessLost ==
  \E m \in msgs : /\ Arrives(m, "comres") /\ ~IsLost(m)
                  /\ Run(m.to, comres(chares[m.to], m), {m})
                  /\ UNCHANGED <<script, input, maxit, tol>>

DeliverComqUnlessLost ==
  \E m \in msgs : /\ Arrives(m, "comq") /\ ~IsLost(m)
                  /\ Run(m.to, comq(chares[m.to], m), {m})
                  /\ UNCHANGED <<script, input, maxit, tol>>

\* the steps of Spec, the lost message left in flight
NextLoss ==
  \/ \E c \in Chares : CallInit(c)
  \/ \E c \in Chares : CallSolve(c)
  \/ DeliverWait4res
  \/ DeliverComresUnlessLost
  \/ DeliverNormb
  \/ DeliverRho
  \/ DeliverWait4q
  \/ DeliverComqUnlessLost
  \/ DeliverPq
  \/ DeliverNormres
  \/ Reduce

SpecLoss == InitLoss /\ [][NextLoss]_vars

\* what dot() is applied to: a chare 0 of MaxNodes local nodes with ncomp
\* components each, one node sh shared with chare 1 (so a slave node of
\* chare 0), the vector b, and what a read of m_gid past its end gives:
\* the id of the slave node or an id of no node
DotArgs ==
  UNION { { [sh |-> cs[2], b |-> b, beyond |-> j,
             arg |-> Arg(Eye(cs[1], MaxNodes * cs[1]), Tuple0(MaxNodes * cs[1]),
                         b, SomeGid(MaxNodes), LidOf(SomeGid(MaxNodes)),
                         1 :> {cs[2]})] :
              b \in [1 .. MaxNodes * cs[1] -> 1 .. 2],
              j \in [MaxNodes .. MaxNodes * cs[1] - 1 -> {cs[2], 0}] } :
          cs \in (1 .. 2) \X Range(SomeGid(MaxNodes)) }

\* the chare is constructed; memory past the end of m_gid holds beyond
InitDot ==
  /\ input \in DotArgs
  /\ chares = [c \in {0} |->
                 [beyond |-> input.beyond] @@ Array(0 :> input.arg)[0]]
  /\ msgs = {}
  /\ red = 0 :> <<>>
  /\ script = <<>>
  /\ maxit = 0
  /\ tol = Zero

\* dot( m_b, m_b, normb ) as init() calls it
ApplyDot ==
  /\ red[0] = <<>>
  /\ Run(0, dot(chares[0], chares[0].m_b, chares[0].m_b, "normb"), {})
  /\ UNCHANGED <<script, input, maxit, tol>>

SpecDot == InitDot /\ [][ApplyDot]_vars

\* as Spec, with init() also called right after init()
NextAnySeq == Next \/ \E c \in Chares : CallInitAgain(c)

\* the systems of two chares and of three chares in a line
InitAnySeq == Init /\ input \in {"two", "line"} /\ maxit = MaxIt

SpecAnySeq == InitAnySeq /\ [][NextAnySeq]_vars


---------------------------------------------------------------------------
(* What the claims speak of *)

\* the chares holding global node g, and all global nodes
Holders(g) == {c \in Chares : g \in Range(chares[c].m_gid)}
GlobalIds == UNION {Range(chares[c].m_gid) : c \in Chares}
\* the holders of g that count it in a reduction
Counting(g) ==
  {c \in Holders(g) : ~slave(chares[c].m_nodeCommMap, g, c)}
\* the least element of a non-empty set of chare ids
Least(S) == CHOOSE c \in S : \A d \in S : c <= d

\* the local part of (a,b) that chare c contributes
Partial(c, a, b) ==
  dot([chares[c] EXCEPT !.con = <<>>], a, b, "none").con[1].val
\* the vector of ones of chare c
Ones(c) == [i \in DOMAIN chares[c].m_b |-> R(1)]
\* (b,b) over the global nodes, each taken once from one of its holders
GlobalBB ==
  RSum([g \in GlobalIds |->
          LET h == Least(Holders(g))
              v == chares[h].m_b[chares[h].m_lid[g]]
          IN  RMul(v, v)],
       GlobalIds)

\* C1: every global node is counted by exactly one of its holders, the
\* partial dot products of the vectors of ones add up to the number of
\* distinct global nodes, and the reduced (b,b) a chare has when init() is
\* complete is the sum of b*b over the distinct global nodes.
NonRedundantReduction ==
  /\ \A g \in GlobalIds : Cardinality(Counting(g)) = 1
  /\ RSum([c \in Chares |-> Partial(c, Ones(c), Ones(c))], Chares)
       = R(Cardinality(GlobalIds))
  /\ \A c \in Chares :
       chares[c].phase = "ReadyToIterate" => chares[c].m_normb = Sqrt(GlobalBB)

\* a chare of the star, whose node 0 is held three times, has completed init()
NonRedundantWitness ==
  /\ input = "star"
  /\ Cardinality(Holders(0)) = 3
  /\ \E c \in Chares : chares[c].phase = "ReadyToIterate"

\* C2: the holder of a global node that counts it in reductions is the holder
\* with the lowest chare id: slave() is true exactly for the other holders.
OwnerIsLowestHolder ==
  \A g \in GlobalIds : \A c \in Holders(g) :
    slave(chares[c].m_nodeCommMap, g, c) <=> c # Least(Holders(g))


\* the fellow chares of c
Neighbors(c) == DOMAIN chares[c].m_nodeCommMap

\* entry i of the product of A with the vector named f (m_x or m_p), summed
\* over the local products of all chares holding the node of entry i
ProductAt(c, i, f) ==
  LET dof == chares[c].m_A.ncomp
      g   == chares[c].m_gid[i \div dof]
  IN  RSum([h \in Holders(g) |->
              mult(chares[h].m_A, chares[h][f])
                [chares[h].m_lid[g] * dof + (i % dof)]],
           Holders(g))

\* C3: when the residual round has completed on a chare (initres() has run,
\* solve() not yet called), r = b - A*x with A*x summed over all holders of
\* each node; when the matvec round has completed (q() has run, (p,q) not
\* yet received), q = A*p summed over all holders of each node; an entry of
\* a node held by this chare alone is its own mult() result.
ExchangeResult ==
  \A c \in Chares :
    /\ chares[c].at = "initres" =>
         \A i \in DOMAIN chares[c].m_r :
           chares[c].m_r[i] = RSub(chares[c].m_b[i], ProductAt(c, i, "m_x"))
    /\ chares[c].at = "q" =>
         \A i \in DOMAIN chares[c].m_q :
           chares[c].m_q[i] = ProductAt(c, i, "m_p")

\* a chare of the star has completed a matvec round in which the value at
\* node 0, held by three chares, differs from its own product
ExchangeWitness ==
  /\ input = "star"
  /\ \E c \in Chares :
       /\ chares[c].at = "q"
       /\ chares[c].m_q[chares[c].m_lid[0]]
            # mult(chares[c].m_A, chares[c].m_p)[chares[c].m_lid[0]]

\* C4: in every round a chare sends one message to each fellow chare, and
\* the k-th merge of a kind runs after the chare's own k-th mult() with
\* exactly |NodeCommMap| messages received, all of them of round k.
ExchangeOrdering ==
  \A c \in Chares :
    LET s == chares[c]
        n == Cardinality(Neighbors(c))
    IN  /\ s.sentres = s.nres * n /\ s.sentq = s.nqap * n
        /\ s.mres <= s.nres /\ s.mq <= s.nqap
        /\ s.merged.kind # "none" =>
             /\ s.merged.own >= s.merged.rnd
             /\ Cardinality(s.merged.from) = n
             /\ \A f \in s.merged.from : f[2] = s.merged.rnd

\* the middle chare of the line has merged a matvec round of two messages
ExchangeOrderingWitness ==
  /\ input = "line"
  /\ chares[1].merged.kind = "q"
  /\ Cardinality(chares[1].merged.from) = 2

\* C5: whenever a chare merges its accumulator, the accumulator holds one
\* contribution of each fellow chare, each sent in the round of the local
\* vector it is added to.
NoCrossRoundMerge ==
  \A c \in Chares :
    chares[c].merged.kind # "none" =>
      chares[c].merged.from = {<<n, chares[c].merged.own>> : n \in Neighbors(c)}

\* C6: when the solve continuation is invoked, it <= maxit.
IterationBound ==
  \A c \in Chares : chares[c].at = "done" => chares[c].m_it <= chares[c].m_maxit

\* (r,r) over the global nodes with r as it was when solve() was called
GlobalRR0 ==
  RSum([g \in GlobalIds |->
          LET h == Least(Holders(g))
              v == chares[h].atsolve.r[chares[h].m_lid[g]]
          IN  RMul(v, v)],
       GlobalIds)

\* C7: solve() with maxit = 0 invokes the solve continuation with it = 0,
\* the norm of the residual as it was at the call, x, r, p, q unchanged and
\* no matvec round started.
SolveMaxitZero ==
  \A c \in Chares :
    (chares[c].at = "done" /\ chares[c].m_maxit = 0) =>
      /\ chares[c].m_it = 0
      /\ chares[c].norm = Sqrt(GlobalRR0)
      /\ chares[c].m_x = chares[c].atsolve.x
      /\ chares[c].m_r = chares[c].atsolve.r
      /\ chares[c].m_p = chares[c].atsolve.p
      /\ chares[c].m_q = chares[c].atsolve.q
      /\ chares[c].nqap = chares[c].atsolve.qaps

\* C8: after rho() and before the matvec round completes, in the first
\* iteration of a solve() alpha = 0 and p = r, and in a later iteration
\* alpha = rho/rho0 with rho0 the rho of the iteration before.
Bootstrapping ==
  \A c \in Chares :
    chares[c].at = "rho" =>
      IF chares[c].m_it = 0
      THEN chares[c].m_alpha = Zero /\ chares[c].m_p = chares[c].m_r
      ELSE /\ chares[c].m_alpha = RDiv(chares[c].m_rho, chares[c].rhoprev)
           /\ chares[c].m_rho0 = chares[c].m_rho

\* a second solve() has run rho() in its first iteration; the p left by the
\* first solve() was another vector
BootstrappingWitness ==
  \E c \in Chares :
    /\ chares[c].at = "rho" /\ chares[c].m_it = 0
    /\ chares[c].nsolved >= 1
    /\ chares[c].atsolve.p # chares[c].m_p
    /\ chares[c].m_p # Zeros(chares[c].m_A.rsize)

\* the chare m.to has received the reduced value of m (no bound of the model
\* lets a denominator reach 10^14, so d <= 1.0e-14 iff d <= 0)
Received(m) == m \in msgs /\ m \notin msgs'

\* C9: a step that delivers (p,q) <= 1.0e-14 to pq() leaves the chare in
\* Fatal with alpha, r, x and it as they were, nothing contributed and
\* nothing sent; a chare in Fatal never changes again (no further iteration,
\* no solve continuation).
BreakdownDetection ==
  [][ /\ \A m \in msgs :
           (m.kind = "pq" /\ Received(m) /\ m.val[1] <= 0) =>
             /\ chares'[m.to].phase = "Fatal"
             /\ chares'[m.to].m_alpha = chares[m.to].m_alpha
             /\ chares'[m.to].m_r = chares[m.to].m_r
             /\ chares'[m.to].m_x = chares[m.to].m_x
             /\ chares'[m.to].m_it = chares[m.to].m_it
             /\ chares'[m.to].nsolved = chares[m.to].nsolved
             /\ red' = red
             /\ msgs' \subseteq msgs
      /\ \A c \in Chares :
           chares[c].phase = "Fatal" => chares'[c] = chares[c] /\ red'[c] = red[c]
    ]_vars

\* the chare of the all-zero matrix with non-zero b has failed in pq()
BreakdownWitness ==
  /\ input = "zero"
  /\ chares[0].phase = "Fatal"
  /\ chares[0].m_b # Zeros(2)

\* C10: for a symmetric positive definite system with consistent b and x no
\* chare reaches Fatal.
NoBreakdownWhenSPD ==
  Systems[input].spd => \A c \in Chares : chares[c].phase # "Fatal"

\* the solve() calls the caller of chare c has made so far
SolveCalls(c) ==
  Cardinality({k \in 1 .. chares[c].ncalls : script[k] = "solve"})

\* C11: a step that delivers the reduced (r,r) to normres() updates x,
\* increments it and then starts another iteration (contributes to the next
\* rho, no continuation) exactly when it < maxit and norm > tol*||b||;
\* otherwise it invokes the solve continuation once with norm = sqrt((r,r)),
\* as Converged if the tolerance is met and as MaxIterExceeded if not.  The
\* solve continuation is invoked by no other step, and a chare that is back
\* from solve() has had one continuation for each of its solve() calls.
StopRule ==
  /\ [](\A c \in Chares :
          /\ chares[c].nsolved <= SolveCalls(c)
          /\ chares[c].phase \in {"Converged", "MaxIterExceeded"} =>
               chares[c].nsolved = SolveCalls(c)
          /\ chares[c].phase = "Iterating" =>
               chares[c].nsolved = SolveCalls(c) - 1)
  /\ [][ /\ \A m \in msgs :
              (m.kind = "normres" /\ Received(m)) =>
                LET s    == chares[m.to]
                    t    == chares'[m.to]
                    far  == RGt(m.val, RMul(RMul(tol, tol), s.m_normb.sq))
                IN  /\ t.m_it = s.m_it + 1
                    /\ t.m_x = [i \in DOMAIN s.m_x |->
                                  RAdd(s.m_x[i], RMul(s.m_alpha, s.m_p[i]))]
                    /\ IF t.m_it < maxit /\ far
                       THEN /\ t.phase = "Iterating"
                            /\ t.nsolved = s.nsolved
                            /\ Len(red'[m.to]) = Len(red[m.to]) + 1
                            /\ red'[m.to][Len(red'[m.to])].cb = "rho"
                       ELSE /\ t.nsolved = s.nsolved + 1
                            /\ t.norm = Sqrt(m.val)
                            /\ red'[m.to] = red[m.to]
                            /\ t.phase = IF far THEN "MaxIterExceeded"
                                         ELSE "Converged"
         /\ \A c \in Chares :
              chares'[c].nsolved # chares[c].nsolved =>
                \E m \in msgs : m.kind = "normres" /\ m.to = c /\ Received(m)
       ]_vars

\* a solve() has continued after its first iteration and has invoked the
\* solve continuation after its second
StopRuleWitness ==
  \E c \in Chares :
    /\ chares[c].at = "done"
    /\ chares[c].m_it = 2 /\ chares[c].m_maxit = 2
    /\ chares[c].nsolved = 1

\* the init() calls the caller of chare c has made so far
InitCalls(c) ==
  Cardinality({k \in 1 .. chares[c].ncalls : script[k] = "init"})

\* C12: a chare inside init() has had one init continuation for each of its
\* earlier init() calls and a chare outside init() one for each init() call;
\* when the continuation is invoked (initres() has just run) the chare's own
\* mult() of this round and one contribution of this round from every fellow
\* chare have been merged, r = b - A*x with A*x summed over all holders of
\* each node, and the delivered value is the root of the global (b,b), which
\* is not the initial 0.
InitCompletion ==
  \A c \in Chares :
    LET s == chares[c]
    IN  /\ s.ninit = IF s.phase = "Initializing" THEN InitCalls(c) - 1
                     ELSE InitCalls(c)
        /\ s.at = "initres" =>
             /\ s.merged.kind = "res"
             /\ s.merged.rnd = s.ninit /\ s.merged.own = s.ninit
             /\ s.merged.from = {<<n, s.ninit>> : n \in Neighbors(c)}
             /\ s.norm = Sqrt(GlobalBB)
             /\ s.norm # Sqrt(Zero)
             /\ \A i \in DOMAIN s.m_r :
                  s.m_r[i] = RSub(s.m_b[i], ProductAt(c, i, "m_x"))

\* a chare with fellow chares has completed its second init(), called after
\* a solve() that has changed x
InitCompletionWitness ==
  \E c \in Chares :
    /\ chares[c].at = "initres" /\ chares[c].ninit = 2
    /\ Neighbors(c) # {}
    /\ chares[c].m_x # Systems[input].arg[c].x

\* chare c has left solve(): converged, out of iterations, or failed
Ended(c) ==
  c \in Chares /\ chares[c].phase \in {"Converged", "MaxIterExceeded", "Fatal"}

\* C13: with fair delivery every chare inside solve() eventually reaches
\* Converged, MaxIterExceeded or Fatal; a chare that has reached Converged
\* has norm <= tol*||b|| and a chare that has reached MaxIterExceeded has
\* it >= maxit.
Termination ==
  /\ \A c \in ChareIds :
       (c \in Chares /\ chares[c].phase = "Iterating") ~> Ended(c)
  /\ [](\A c \in Chares :
          LET s == chares[c]
          IN  /\ s.phase = "Converged" =>
                   ~RGt(s.norm.sq, RMul(RMul(tol, tol), s.m_normb.sq))
              /\ s.phase = "MaxIterExceeded" => s.m_it >= maxit)

\* all three chares of the line have come back from a solve() that did not
\* fail
TerminationWitness ==
  /\ input = "line"
  /\ \A c \in Chares :
       chares[c].phase \in {"Converged", "MaxIterExceeded"}

\* C14: two chares at the same point of the same call (same number of calls,
\* same it, same handler last run) hold the same rho, rho0 and alpha (alpha
\* after pq() is rho/(p,q)), two chares that have completed the same init()
\* hold the same ||b||, and two chares that have left the same solve() have
\* left it the same way: both failed, or both with the same it, norm and
\* outcome.
ReductionAgreement ==
  \A c, d \in Chares :
    LET s == chares[c]
        t == chares[d]
    IN  s.ncalls = t.ncalls =>
          /\ (s.m_it = t.m_it /\ s.at = t.at
                /\ s.at \in {"next", "rho", "q", "pq", "done"}) =>
               /\ s.m_rho = t.m_rho
               /\ s.m_rho0 = t.m_rho0
               /\ s.m_alpha = t.m_alpha
          /\ (s.at = "initres" /\ t.at = "initres") =>
               s.m_normb = t.m_normb /\ s.norm = t.norm
          /\ (s.at \in {"done", "fatal"} /\ t.at \in {"done", "fatal"}) =>
               /\ s.phase = t.phase
               /\ s.m_it = t.m_it
               /\ s.at = "done" => s.norm = t.norm

\* two chares of the line have both run pq() in the second iteration of the
\* same solve(), with different local parts of q
AgreementWitness ==
  /\ input = "line"
  /\ chares[0].at = "pq" /\ chares[1].at = "pq"
  /\ chares[0].m_it = 1 /\ chares[1].m_it = 1
  /\ chares[0].ncalls = chares[1].ncalls
  /\ chares[0].m_alpha # Zero
  /\ chares[0].m_q # chares[1].m_q

\* the one-partition run: the single chare handles what it has sent to
\* itself and the reductions of its own contributions, one at a time, until
\* nothing is pending; the value is the sequence of its states
RECURSIVE SerialTrace(_)
SerialTrace(s) ==
  IF s.phase = "Fatal" \/ (s.out = {} /\ s.con = <<>>) THEN <<s>>
  ELSE IF s.out # {}
  THEN LET m  == CHOOSE m \in s.out : TRUE
           s0 == [s EXCEPT !.out = @ \ {m}]
       IN  <<s>> \o SerialTrace(IF m.kind = "wait4res" THEN wait4res(s0)
                                ELSE wait4q(s0))
  ELSE LET d  == Head(s.con)
           s0 == [s EXCEPT !.con = Tail(@)]
       IN  <<s>> \o SerialTrace(CASE d.cb = "normb"   -> normb(s0, d.val)
                                  [] d.cb = "rho"     -> rho(s0, d.val)
                                  [] d.cb = "pq"      -> pq(s0, d.val)
                                  [] d.cb = "normres" -> normres(s0, d.val))

\* the states of the one-partition run of init() and then solve( mxit, tl )
OnePartitionRun(mxit, tl) ==
  LET i == SerialTrace(init(Array(Parts.one)[0]))
      s == SerialTrace(solve(i[Len(i)], mxit, tl))
  IN  Range(i) \cup Range(s)

\* the one-partition runs to the full tolerance, by maxit
OnePartitionRuns == [k \in 0 .. MaxIt |-> OnePartitionRun(k, Zero)]

\* vector v of chare state s equals vector w of the one-partition run at
\* every global id the chare holds
SameAtGlobalIds(s, v, w) ==
  \A g \in Range(s.m_gid) : v[s.m_lid[g]] = w[g]

\* C15: every state a chare of the two- or four-partition run is in has a
\* state of the one-partition run at the same point (same call, same it,
\* same handler last run) with the same rho, rho0 and alpha, the same x and
\* p at every global id, the same r once the residual round is merged and
\* the same q once the matvec round is merged, and at the end of solve() the
\* same norm and the same outcome.
PartitionInvariance ==
  input \in {"two", "four"} =>
    \A c \in Chares :
      LET s == chares[c]
      IN  s.at # "ctor" =>
            \E o \in OnePartitionRuns[maxit] :
              /\ o.at = s.at /\ o.ncalls = s.ncalls /\ o.m_it = s.m_it
              /\ o.m_rho = s.m_rho /\ o.m_rho0 = s.m_rho0
              /\ o.m_alpha = s.m_alpha
              /\ SameAtGlobalIds(s, s.m_x, o.m_x)
              /\ SameAtGlobalIds(s, s.m_p, o.m_p)
              /\ s.at # "init" => SameAtGlobalIds(s, s.m_r, o.m_r)
              /\ s.at # "rho" => SameAtGlobalIds(s, s.m_q, o.m_q)
              /\ s.at \in {"initres", "done"} =>
                   s.norm = o.norm /\ s.phase = o.phase

\* a chare of the four-partition run has ended solve() after two iterations
\* with an x that is not the initial guess
PartitionWitness ==
  /\ input = "four"
  /\ \E c \in Chares :
       /\ chares[c].at = "done" /\ chares[c].m_it = 2
       /\ chares[c].m_x # Parts.four[c].x

\* (a,b) over all entries
Dot(a, b) == RSum([i \in DOMAIN a |-> RMul(a[i], b[i])], DOMAIN a)
\* a + f * b, entry by entry
Axpy(a, f, b) == [i \in DOMAIN a |-> RAdd(a[i], RMul(f, b[i]))]

\* the conjugate gradient recurrence of the file header (Saad, Algorithm
\* 6.18): x_j, r_j, p_j from r_0 = b - A*x_0, p_0 = r_0,
\* alpha_j = (r_j,r_j)/(A*p_j,p_j), x_j+1 = x_j + alpha_j*p_j,
\* r_j+1 = r_j - alpha_j*A*p_j, beta_j = (r_j+1,r_j+1)/(r_j,r_j),
\* p_j+1 = r_j+1 + beta_j*p_j
RECURSIVE Textbook(_, _, _, _)
Textbook(A, b, x0, j) ==
  IF j = 0
  THEN LET r0 == Axpy(b, R(-1), mult(A, x0))
       IN  [x |-> x0, r |-> r0, p |-> r0, alpha |-> Zero]
  ELSE LET t     == Textbook(A, b, x0, j - 1)
           Ap    == mult(A, t.p)
           alpha == RDiv(Dot(t.r, t.r), Dot(Ap, t.p))
           x1    == Axpy(t.x, alpha, t.p)
           r1    == Axpy(t.r, RNeg(alpha), Ap)
           beta  == RDiv(Dot(r1, r1), Dot(t.r, t.r))
       IN  [x |-> x1, r |-> r1, p |-> Axpy(r1, beta, t.p), alpha |-> alpha]

\* the recurrence for the system held by one chare; entry j holds x_j, r_j,
\* p_j and alpha_j-1
TextbookRun ==
  [j \in 0 .. MaxIt |->
     Textbook(Parts.one[0].A, Parts.one[0].b, Parts.one[0].x, j)]

\* C16: in the one-partition run of init() then solve(), in iteration j
\* (j = it before normres()), after rho(): rho = (r_j,r_j), p = p_j, x = x_j
\* and r = r_j of the recurrence; after pq(): alpha = alpha_j and r = r_j+1;
\* after normres(): x = x_it and r = r_it.
SerialEquivalence ==
  (input = "one" /\ chares[0].ncalls = 2) =>
    LET s == chares[0]
        j == s.m_it
    IN  /\ s.at \in {"rho", "q"} =>
             /\ s.m_rho = Dot(TextbookRun[j].r, TextbookRun[j].r)
             /\ s.m_p = TextbookRun[j].p
             /\ s.m_x = TextbookRun[j].x
             /\ s.m_r = TextbookRun[j].r
        /\ s.at = "pq" =>
             /\ s.m_alpha = TextbookRun[j + 1].alpha
             /\ s.m_r = TextbookRun[j + 1].r
             /\ s.m_x = TextbookRun[j].x
        /\ (s.at \in {"next", "done"} /\ j > 0) =>
             /\ s.m_alpha = TextbookRun[j].alpha
             /\ s.m_x = TextbookRun[j].x
             /\ s.m_r = TextbookRun[j].r

\* the single chare has run pq() in its second iteration, where the search
\* direction is not the residual
SerialEquivalenceWitness ==
  /\ input = "one"
  /\ chares[0].at = "pq" /\ chares[0].m_it = 1
  /\ chares[0].m_alpha # Zero
  /\ chares[0].m_p # TextbookRun[1].r

\* C17: the single partition with A = tridiag(-1,2,-1) on 4 nodes,
\* b = (1,0,0,1), x0 = 0, called with init() and solve( 10, 1e-10 ), does not
\* fail in that solve(), and leaves it Converged with it <= 4, x = (1,1,1,1)
\* and a delivered norm that is not above tol*||b||.
ScenarioConverges ==
  (input = "scenario" /\ maxit = 10 /\ chares[0].ncalls = 2) =>
    /\ chares[0].phase # "Fatal"
    /\ chares[0].at = "done" =>
         /\ chares[0].phase = "Converged"
         /\ chares[0].m_it <= 4
         /\ chares[0].m_x = Vec(<<1, 1, 1, 1>>)
         /\ chares[0].nsolved = 1
         /\ ~Up(chares[0].norm.sq, chares[0].m_normb.sq, 20)

\* the solve( 10, 1e-10 ) of the scenario has invoked its continuation
ScenarioWitness ==
  /\ input = "scenario" /\ maxit = 10 /\ tol = TolScenario
  /\ chares[0].ncalls = 2 /\ chares[0].at = "done"
  /\ chares[0].m_b = Vec(<<1, 0, 0, 1>>)

\* C18: a chare constructed with empty gid and lid has sent no comres and no
\* comq message, and a chare constructed with non-empty gid and lid has sent
\* one comres per fellow chare in every residual round and one comq per
\* fellow chare in every matvec round.
NoCommunicationIffSerial ==
  \A c \in Chares :
    LET a == MapCases[input][c]
        s == chares[c]
        n == Cardinality(DOMAIN a.ncm)
    IN  /\ (a.gid = <<>> /\ a.lid = <<>>) =>
             /\ s.sentres = 0 /\ s.sentq = 0
             /\ \A m \in msgs : m.from = c => m.kind \notin {"comres", "comq"}
        /\ (a.gid # <<>> /\ a.lid # <<>>) =>
             s.sentres = s.nres * n /\ s.sentq = s.nqap * n

\* C19: construction succeeds exactly when x, b and the rows of A all have
\* (number of local mesh nodes) * ncomp entries, and a solver constructed with
\* empty gid and lid from arguments of those sizes has a gid of one entry
\* per local mesh node.
ConstructionSizeCheck ==
  \A c \in Chares :
    LET a    == input.arg
        full == input.nnodes * a.A.ncomp
        fits == Size(a.x) = full /\ Size(a.b) = full /\ a.A.rsize = full
    IN  /\ chares[c].phase = "Constructed" <=> fits
        /\ (fits /\ a.gid = <<>> /\ a.lid = <<>>) =>
             Size(chares[c].m_gid) = input.nnodes

\* C20: a constructed solver's gid and lid are the identity exactly when the
\* supplied gid or lid is empty; when both are given they are the supplied ones
\* unchanged, lid[gid[i]] = i for every local node i, and lid has no key
\* outside gid.
SuppliedMapsKept ==
  \A c \in Chares :
    LET a == input.arg
        s == chares[c]
    IN  s.phase = "Constructed" =>
        IF a.gid = <<>> \/ a.lid = <<>>
        THEN \A i \in DOMAIN s.m_gid : s.m_gid[i] = i /\ s.m_lid[i] = i
        ELSE /\ s.m_gid = a.gid
             /\ s.m_lid = a.lid
             /\ \A i \in DOMAIN s.m_gid : s.m_lid[s.m_gid[i]] = i
             /\ DOMAIN s.m_lid \subseteq Range(s.m_gid)

\* the reduced value that chare c receives in this step as an invocation of
\* its entry method kind, if any
Got(c, kind) == {m \in msgs : m.kind = kind /\ m.to = c /\ Received(m)}

\* the contribution that chare c makes in this step, if it makes one
Contributed(c) ==
  IF Len(red'[c]) = Len(red[c]) + 1 THEN {red'[c][Len(red'[c])].cb} ELSE {}

\* C21: on every chare the steps of an iteration happen in this order and in
\* no other: the reduced rho arrives after next(); the same step sets alpha
\* and rho0, then p = r + alpha*p, then q = mult(p) of the new p and sends it
\* to every fellow chare; the merge into q follows, with the contributions of
\* this round of all fellow chares, and contributes (p,q); the reduced (p,q)
\* arrives after the merge and is tested, then alpha = rho/(p,q) and
\* r = r - alpha*q, and (r,r) is contributed; the reduced (r,r) arrives after
\* that, then x = x + alpha*p and it + 1, and the iteration is followed by
\* next() or by the end of solve().
StepOrder ==
  [][\A c \in Chares :
       LET s == chares[c]
           t == chares'[c]
           n == Cardinality(Neighbors(c))
       IN  /\ \A m \in Got(c, "rho") :
                /\ s.at = "next" /\ t.at = "rho"
                /\ t.m_rho = m.val /\ t.m_rho0 = m.val
                /\ t.m_alpha = IF s.m_it = 0 THEN Zero
                               ELSE RDiv(m.val, s.m_rho0)
                /\ t.m_p = Axpy(s.m_r, t.m_alpha, s.m_p)
                /\ t.m_q = mult(s.m_A, t.m_p)
                /\ t.nqap = s.nqap + 1 /\ t.sentq = s.sentq + n
                /\ t.mq = s.mq /\ Contributed(c) = {}
                /\ t.m_r = s.m_r /\ t.m_x = s.m_x /\ t.m_it = s.m_it
           /\ t.mq # s.mq =>
                /\ s.at = "rho" /\ t.at = "q"
                /\ t.mq = s.mq + 1 /\ t.mq = t.nqap
                /\ t.merged.from = {<<f, t.nqap>> : f \in Neighbors(c)}
                /\ Contributed(c) = {"pq"}
                /\ t.m_p = s.m_p /\ t.m_r = s.m_r /\ t.m_x = s.m_x
           /\ \A m \in Got(c, "pq") :
                /\ s.at = "q"
                /\ IF m.val[1] <= 0
                   THEN t.at = "fatal" /\ Contributed(c) = {}
                   ELSE /\ t.at = "pq"
                        /\ t.m_alpha = RDiv(s.m_rho, m.val)
                        /\ t.m_r = Axpy(s.m_r, RNeg(t.m_alpha), s.m_q)
                        /\ Contributed(c) = {"normres"}
                /\ t.m_x = s.m_x /\ t.m_it = s.m_it /\ t.m_p = s.m_p
           /\ \A m \in Got(c, "normres") :
                /\ s.at = "pq" /\ t.at \in {"next", "done"}
                /\ t.m_x = Axpy(s.m_x, s.m_alpha, s.m_p)
                /\ t.m_it = s.m_it + 1
                /\ t.m_r = s.m_r /\ t.m_p = s.m_p /\ t.m_q = s.m_q
                /\ Contributed(c) = IF t.at = "next" THEN {"rho"} ELSE {}
           /\ (t.at # s.at /\ t.at \in {"rho", "q", "pq", "fatal", "done"}) =>
                <<s.at, t.at>> \in {<<"next", "rho">>, <<"rho", "q">>,
                                    <<"q", "pq">>, <<"q", "fatal">>,
                                    <<"pq", "done">>, <<"next", "done">>}
     ]_vars

\* a chare with two fellow chares has completed an iteration and started the
\* next one
StepOrderWitness ==
  /\ input = "line"
  /\ chares[1].at = "next" /\ chares[1].m_it = 1
  /\ chares[1].mq >= 1 /\ chares[1].merged.kind = "q"

\* the boundary-exchange rounds chare c has started and not yet merged
OpenExchanges(c) ==
  (chares[c].nres - chares[c].mres) + (chares[c].nqap - chares[c].mq)

\* the reductions chare c has contributed to and not yet received
OpenReductions(c) ==
  Len(red[c]) + Cardinality({m \in msgs : m.to = c /\ m.kind \in
                               {"normb", "rho", "pq", "normres"}})

\* C22 as stated: at any time, during init() as well as during solve(), a
\* chare has at most one round outstanding, a boundary exchange or a
\* reduction and never both.
NoPipelining ==
  \A c \in Chares : OpenExchanges(c) + OpenReductions(c) <= 1

\* C22, amended: a chare never has two boundary exchanges or two reductions
\* outstanding; outside init() it has at most one round outstanding; inside
\* init() the residual exchange and the (b,b) reduction, and no other round,
\* may be outstanding together.
NoPipeliningButInit ==
  \A c \in Chares :
    /\ OpenExchanges(c) <= 1 /\ OpenReductions(c) <= 1
    /\ chares[c].phase # "Initializing" =>
         OpenExchanges(c) + OpenReductions(c) <= 1
    /\ chares[c].phase = "Initializing" =>
         /\ chares[c].nqap = chares[c].mq
         /\ \A i \in DOMAIN red[c] : red[c][i].cb = "normb"
         /\ \A m \in msgs : m.to = c => m.kind \notin {"rho", "pq", "normres"}

\* a chare with fellow chares is inside init() with its residual exchange
\* and the (b,b) reduction both outstanding
PipelinedInitWitness ==
  \E c \in Chares :
    /\ Neighbors(c) # {} /\ chares[c].phase = "Initializing"
    /\ OpenExchanges(c) = 1 /\ OpenReductions(c) = 1

\* C23: a step in which the caller of a chare calls solve() leaves it = 0; a
\* step that delivers the reduced (r,r) to normres() adds exactly 1 to it;
\* every other step of the chare (init() and all other handlers) leaves it
\* as it was.
IterationCounter ==
  [][\A c \in Chares :
       LET s == chares[c]
           t == chares'[c]
       IN  IF t.ncalls # s.ncalls
           THEN t.m_it = IF script'[t.ncalls] = "solve" THEN 0 ELSE s.m_it
           ELSE IF Got(c, "normres") # {}
           THEN t.m_it = s.m_it + 1
           ELSE t.m_it = s.m_it
     ]_vars

\* a second solve() has been called by a chare whose first solve() had
\* iterated and changed x
IterationCounterWitness ==
  \E c \in Chares :
    /\ chares[c].at = "next" /\ chares[c].m_it = 0
    /\ chares[c].nsolved = 1 /\ chares[c].m_maxit = 2
    /\ chares[c].atsolve.x # Systems[input].arg[c].x
    /\ chares[c].phase = "Iterating"

\* the message that is never delivered has been sent
Lost == \E m \in msgs : IsLost(m)

\* the solve() calls made before the k-th init() call
SolvesBeforeInit(k) ==
  LET at == {i \in 1 .. Len(script) :
               /\ script[i] = "init"
               /\ Cardinality({j \in 1 .. i : script[j] = "init"}) = k}
  IN  Cardinality({j \in 1 .. Len(script) :
                     script[j] = "solve" /\ \A i \in at : j < i})

\* C24: once a comres or comq message of round rnd to chare P is in flight
\* and never delivered, P never merges that round and its continuation of
\* that call is never invoked (P stays short of its rnd-th init continuation,
\* or inside solve()); the sender starts no further round, every chare has
\* sent exactly one message per fellow chare and round it has started, and
\* no chare has more solve continuations than were due before the call of
\* the lost message.
PermanentStall ==
  Lost =>
    LET L == input.lost
        P == chares[L.to]
        Q == chares[L.from]
    IN  /\ \A c \in Chares :
             /\ chares[c].sentres = chares[c].nres * Cardinality(Neighbors(c))
             /\ chares[c].sentq = chares[c].nqap * Cardinality(Neighbors(c))
             /\ chares[c].nres = InitCalls(c)
        /\ IF L.kind = "comres"
           THEN /\ P.mres < L.rnd /\ P.ninit < L.rnd
                /\ Q.nres = L.rnd
                /\ \A c \in Chares :
                     chares[c].nsolved <= SolvesBeforeInit(L.rnd)
           ELSE /\ P.mq < L.rnd
                /\ P.phase = "Iterating"
                /\ Q.nqap = L.rnd
                /\ \A c \in Chares :
                     chares[c].nsolved <= SolveCalls(L.from) - 1

\* the middle chare of the line waits in its second matvec round for the
\* lost message of chare 0: it has started the round and merged the first,
\* all other messages are delivered and no reduction is complete
PermanentStallWitness ==
  /\ input.sys = "line" /\ input.lost.kind = "comq" /\ input.lost.rnd = 2
  /\ input.lost.to = 1
  /\ \A m \in msgs : IsLost(m)
  /\ Lost
  /\ chares[1].nqap = 2 /\ chares[1].mq = 1
  /\ \E c \in Chares : red[c] = <<>>

\* the global ids held by both c and d
Shared(c, d) == Range(chares[c].m_gid) \cap Range(chares[d].m_gid)

\* vector f (m_x, m_r, m_p or m_q) of c and of d agree at every shared id
AgreeOn(c, d, f) ==
  \A g \in Shared(c, d) :
    chares[c][f][chares[c].m_lid[g]] = chares[d][f][chares[d].m_lid[g]]

\* the x and b the chares were constructed with agree at every shared id
ConsistentInput ==
  \A c, d \in Chares : \A g \in Shared(c, d) :
    LET a == Systems[input].arg[c]
        e == Systems[input].arg[d]
    IN  /\ a.x[chares[c].m_lid[g]] = e.x[chares[d].m_lid[g]]
        /\ a.b[chares[c].m_lid[g]] = e.b[chares[d].m_lid[g]]

\* C25: with x0 and b equal at every copy of a shared node, two chares that
\* have completed the same step of the same iteration of the same call hold
\* the same r, p, q and x at every global id they share: after the init
\* merge, the q merge, the r update and the x update all four vectors, and
\* after rho() r, p and x (rho() also starts the next matvec round, q then
\* holds the chare's own product until the merge; at the p update itself q
\* is the q of the x update before).
SharedNodeConsistency ==
  ConsistentInput =>
    \A c, d \in Chares :
      (/\ chares[c].ncalls = chares[d].ncalls
       /\ chares[c].m_it = chares[d].m_it
       /\ chares[c].at = chares[d].at
       /\ chares[c].at \in {"initres", "next", "rho", "q", "pq", "done"}) =>
        /\ AgreeOn(c, d, "m_r") /\ AgreeOn(c, d, "m_p") /\ AgreeOn(c, d, "m_x")
        /\ chares[c].at # "rho" => AgreeOn(c, d, "m_q")

\* two chares have both merged q in their second iteration; at the node they
\* share the merged value is not the own product of either of them
SharedNodeWitness ==
  \E c, d \in Chares : \E g \in Shared(c, d) :
    /\ c # d
    /\ chares[c].at = "q" /\ chares[d].at = "q"
    /\ chares[c].m_it = 1 /\ chares[d].m_it = 1
    /\ chares[c].ncalls = chares[d].ncalls
    /\ \A e \in {c, d} :
         chares[e].m_q[chares[e].m_lid[g]]
           # mult(chares[e].m_A, chares[e].m_p)[chares[e].m_lid[g]]

\* entry i of b - A*x on chare c, A*x summed over all holders of the node
TrueResidual(c, i) == RSub(chares[c].m_b[i], ProductAt(c, i, "m_x"))

\* the squared norm of b - A*x over the global nodes, each taken once
TrueResidualRR ==
  RSum([g \in GlobalIds |->
          LET h == Least(Holders(g))
              v == TrueResidual(h, chares[h].m_lid[g])
          IN  RMul(v, v)],
       GlobalIds)

\* every chare is in the same call as c with the same iteration count, so
\* that all of them hold the same iterate x
SameIterate(c) ==
  \A d \in Chares :
    chares[d].ncalls = chares[c].ncalls /\ chares[d].m_it = chares[c].m_it

\* C26: when the init continuation is invoked and when an iteration is
\* complete (normres() has updated x), r = b - A*x on the chare, with A*x
\* summed over all holders of each node and x the iterate all chares hold
\* at that point; the norm the solve continuation delivers is the norm of
\* that b - A*x.
ResidualInvariant ==
  \A c \in Chares :
    LET s == chares[c]
    IN  (/\ s.at = "initres" \/ (s.at \in {"next", "done"} /\ s.m_it >= 1)
         /\ SameIterate(c)) =>
          /\ \A i \in DOMAIN s.m_r : s.m_r[i] = TrueResidual(c, i)
          /\ s.at = "done" => s.norm = Sqrt(TrueResidualRR)

\* a chare with fellow chares has left solve() out of iterations with a
\* residual that is not zero, all chares holding the same iterate
ResidualWitness ==
  \E c \in Chares :
    /\ Neighbors(c) # {} /\ SameIterate(c)
    /\ chares[c].at = "done" /\ chares[c].phase = "MaxIterExceeded"
    /\ chares[c].m_it >= 1
    /\ chares[c].m_r # Zeros(chares[c].m_A.rsize)
    /\ chares[c].m_x # Systems[input].arg[c].x

\* the messages of round k, one of each fellow chare of c
RoundOf(c, k) == {<<n, k>> : n \in Neighbors(c)}

\* C27: a comres or comq message that reaches a chare before the chare has
\* started that round itself is added to the accumulator and counted, and
\* no merge runs in that step; the step in which the chare then starts the
\* round (its own mult() and sends) leaves the accumulator as it is; the
\* accumulator never holds anything but messages of the round to be merged
\* next, at most one of each fellow chare; and the merge of a round runs
\* after the chare's own mult() of that round, with exactly one message of
\* that round of each fellow chare, and leaves an empty accumulator and, in
\* the state after it, the full sum over all holders (r = b - A*x, q = A*p).
EarlyArrival ==
  /\ [](\A c \in Chares :
          /\ chares[c].rcfrom \subseteq RoundOf(c, chares[c].mres + 1)
          /\ chares[c].qcfrom \subseteq RoundOf(c, chares[c].mq + 1)
          /\ chares[c].mres <= chares[c].nres /\ chares[c].mq <= chares[c].nqap
          /\ chares[c].at = "initres" =>
               \A i \in DOMAIN chares[c].m_r :
                 chares[c].m_r[i] = TrueResidual(c, i)
          /\ chares[c].at = "q" =>
               \A i \in DOMAIN chares[c].m_q :
                 chares[c].m_q[i] = ProductAt(c, i, "m_p"))
  /\ [][\A c \in Chares :
          LET s == chares[c]
              t == chares'[c]
          IN  /\ \A m \in Got(c, "comres") :
                   m.rnd > s.nres =>
                     /\ t.m_rc = Accumulate(s.m_rc, m.val)
                     /\ t.rcfrom = s.rcfrom \cup {<<m.from, m.rnd>>}
                     /\ <<m.from, m.rnd>> \notin s.rcfrom
                     /\ t.mres = s.mres /\ t.ninit = s.ninit
                     /\ t.m_r = s.m_r
              /\ \A m \in Got(c, "comq") :
                   m.rnd > s.nqap =>
                     /\ t.m_qc = Accumulate(s.m_qc, m.val)
                     /\ t.qcfrom = s.qcfrom \cup {<<m.from, m.rnd>>}
                     /\ <<m.from, m.rnd>> \notin s.qcfrom
                     /\ t.mq = s.mq
                     /\ t.m_q = s.m_q
              /\ t.nres # s.nres =>
                   /\ t.m_rc = s.m_rc /\ t.rcfrom = s.rcfrom
                   /\ t.mres = s.mres
              /\ t.nqap # s.nqap =>
                   /\ t.m_qc = s.m_qc /\ t.qcfrom = s.qcfrom
                   /\ t.mq = s.mq
              /\ t.mres # s.mres =>
                   /\ t.mres = s.mres + 1 /\ t.mres = t.nres
                   /\ t.merged.from = RoundOf(c, t.mres)
                   /\ t.m_rc = <<>> /\ t.rcfrom = {}
                   /\ t.at = "initres"
              /\ t.mq # s.mq =>
                   /\ t.mq = s.mq + 1 /\ t.mq = t.nqap
                   /\ t.merged.from = RoundOf(c, t.mq)
                   /\ t.m_qc = <<>> /\ t.qcfrom = {}
                   /\ t.at = "q"
     ]_vars

\* the middle chare of the line holds the comq messages of both fellow
\* chares for its second matvec round, which it has not started itself
EarlyArrivalWitness ==
  /\ input = "line"
  /\ chares[1].nqap = 1 /\ chares[1].mq = 1
  /\ chares[1].qcfrom = RoundOf(1, 2)
  /\ chares[1].comqc = 1
  /\ chares[1].m_qc # <<>>

\* the step is a reduction: the oldest contribution of every chare is taken
Reduced == \A c \in Chares : red[c] # <<>> /\ red'[c] = Tail(red[c])

\* the kind of reduction a chare at this point of its calls contributes to
\* next, from its call and the handler it has last run
DueKind(c) ==
  CASE chares[c].at = "init" -> "normb"
    [] chares[c].at = "next" -> "rho"
    [] chares[c].at = "q"    -> "pq"
    [] chares[c].at = "pq"   -> "normres"
    [] OTHER                 -> "none"

\* C28: a chare has at most one contribution waiting, of the kind that is
\* due at its point of the call sequence ((b,b) in init(), then per
\* iteration (r,r) for rho, (p,q), (r,r) for the norm); every reduction takes
\* contributions of one and the same kind, made in the same call and the
\* same iteration by all chares, and delivers their sum to every chare as
\* that kind; a chare that is in solve() while another is still in init()
\* included.
ReductionsDoNotMix ==
  /\ [](\A c \in Chares :
          /\ Len(red[c]) <= 1
          /\ red[c] # <<>> => Head(red[c]).cb = DueKind(c))
  /\ [][Reduced =>
          /\ \A c, d \in Chares :
               /\ Head(red[c]).cb = Head(red[d]).cb
               /\ chares[c].ncalls = chares[d].ncalls
               /\ chares[c].m_it = chares[d].m_it
          /\ \A m \in msgs' \ msgs :
               /\ m.kind = Head(red[m.to]).cb
               /\ m.val = RSum([d \in Chares |-> Head(red[d]).val], Chares)
          /\ \A c \in Chares : \E m \in msgs' \ msgs : m.to = c
     ]_vars

\* a chare has contributed to the first rho of its solve() while a fellow
\* chare is still inside init()
ReductionsWitness ==
  \E c, d \in Chares :
    /\ chares[c].phase = "Iterating" /\ red[c] # <<>>
    /\ Head(red[c]).cb = "rho"
    /\ chares[d].phase = "Initializing" /\ red[d] = <<>>
    /\ d \in Neighbors(c)

\* C29: dot() reads m_gid only at indices below the number of local nodes,
\* and its value is the sum of a[i]*b[i] over the components i of the nodes
\* that are not slave nodes, the node of component i being i div ncomp.
DotIndexBounds ==
  \A c \in Chares :
    red[c] # <<>> =>
      LET s   == chares[c]
          own == {i \in DOMAIN s.m_b :
                    ~slave(s.m_nodeCommMap, s.m_gid[i \div s.m_A.ncomp], c)}
      IN  /\ ~s.oob
          /\ Head(red[c]).val =
               RSum([i \in own |-> RMul(s.m_b[i], s.m_b[i])], own)


\* the fields of chare c that an iteration may change before pq() has
\* tested (p,q) are left out: what is left of the solver's data
Kept(s) ==
  [x |-> s.m_x, r |-> s.m_r, it |-> s.m_it, b |-> s.m_b, A |-> s.m_A,
   normb |-> s.m_normb, maxit |-> s.m_maxit, tol |-> s.m_tol]

\* C30: from the end of an iteration (or of init(), or the call of solve())
\* to the breakdown in pq() no step changes x, r or it, nor anything of the
\* solver's data but p, q, rho, rho0 and alpha: the steps that run rho(),
\* qAp(), comq(), q() and the failing pq() keep them, so a chare in Fatal
\* holds the x and r of the end of the last completed iteration, and those of
\* the call of solve() if it has completed none (it = 0).
BreakdownState ==
  /\ [](\A c \in Chares :
          chares[c].phase = "Fatal" /\ chares[c].m_it = 0 =>
            /\ chares[c].m_x = chares[c].atsolve.x
            /\ chares[c].m_r = chares[c].atsolve.r)
  /\ [][\A c \in Chares :
          /\ chares[c].phase = "Iterating"
          /\ chares'[c].at \in {"rho", "q", "fatal"}
          => Kept(chares'[c]) = Kept(chares[c])]_vars

\* a chare has failed in pq() in its second iteration, after rho() has
\* changed p
BreakdownStateWitness ==
  \E c \in Chares :
    /\ chares[c].phase = "Fatal"
    /\ chares[c].m_it = 1
    /\ chares[c].m_x # chares[c].atsolve.x
    /\ chares[c].m_p # chares[c].atsolve.p

=============================================================================
